---- MODULE Spec2Model ----
(***************************************************************************)
(* Model of the Zoom Phone client (src/zoomphone/phone.py) and of the call *)
(* recording exporter (src/call_recordings.py).                            *)
(*                                                                         *)
(* SpecGet    : one call of PhoneMixin._phone_get against a server that    *)
(*              answers every GET with an arbitrary status and body.       *)
(* SpecExport : get_call_recordings followed by download_call_recordings,  *)
(*              and a second run of download_call_recordings with the same *)
(*              mapping.                                                   *)
(***************************************************************************)
EXTENDS Integers, Sequences, FiniteSets, TLC

VARIABLES
    \* ---- _phone_get: arguments and locals
    raw,                          \* argument raw
    key_in_response_to_return,    \* argument key_in_response_to_return
    params,                       \* argument params (mutated while paginating)
    pc,                           \* "call" | "request" | "returned" | "raised"
    inner,                        \* TRUE inside the nested call of line 76
    rate_limit_counter,           \* local of the active frame
    list_of_paged_data_to_return, \* local of the outer frame
    result,                       \* value returned by the outer call
    error,                        \* exception that left the outer call
    \* ---- _phone_get: history of the exchange with the server
    origParams,                   \* params as passed by the caller
    pages,                        \* bodies of the 200 responses, in order
    nGets,                        \* GETs issued so far
    nSleeps,                      \* time.sleep(1) calls so far
    lastStatus,                   \* status of the most recent response
    consec429,                    \* consecutive 429s answered to the current request
    sent,                         \* params of each request (one per retry loop)
    lastSent,                     \* params carried by the most recent GET
    reqGets,                      \* GETs of the request the latest GET belongs to
    \* ---- call_recordings.py: get_call_recordings, download_call_recordings
    USER_ID,                      \* argument USER_ID ("" for all users)
    phone_user_list,              \* emails of the users to export
    user_2_recording,             \* dict email -> recordings, in insertion order
    epc,                          \* "start" | "fetch" | "download" | "done" | "aborted"
    ui,                           \* position of the fetch loop in phone_user_list
    du,                           \* position of the user loop in user_2_recording
    ri,                           \* position of the recording loop
    download_count,               \* local download_count
    dirs,                         \* the directories on disk
    disk,                         \* the files on disk: {[path, content]}
    \* ---- call_recordings.py: history
    run,                          \* 1, or 2 for the second download run
    fetchLog,                     \* every metadata fetch and how it ended
    getLog,                       \* every download GET
    reports,                      \* every "new mp3 file(s) downloaded" line
    disk0,                        \* the disk before the first run
    disk1,                        \* the disk when the first run completed
    \* ---- the list/get wrappers of phone.py: arguments
    wrapper,                      \* the method called
    page_size,                    \* argument page_size
    days,                         \* (to_date - from_date).days
    type_,                        \* argument type_
    \* ---- phone_update_user_profile and _phone_patch
    site_id,                      \* argument site_id
    extension_number,             \* argument extension_number
    upc,                          \* "call" | "patch" | "returned" | "raised"
    patch_data,                   \* the dict "data" of the PATCH being sent
    patch_counter,                \* rate_limit_counter of _phone_patch
    patchLog,                     \* every PATCH request: its data and statuses
    uresult,                      \* what phone_update_user_profile returned
    uerror,                       \* the exception that left it
    \* ---- the two retry loops, fed the same statuses
    statuses,                     \* the statuses the server will answer with
    getLoop,                      \* the loop of _phone_get
    patchLoop,                    \* the loop of _phone_patch
    \* ---- the file name of one recording
    nameArgs,                     \* user and recording
    derived                       \* the directory, file name and path derived

getVars == <<raw, key_in_response_to_return, params, pc, inner,
             rate_limit_counter, list_of_paged_data_to_return, result, error,
             origParams, pages, nGets, nSleeps, lastStatus, consec429, sent,
             lastSent, reqGets>>

exportVars == <<USER_ID, phone_user_list, user_2_recording, epc, ui, du, ri,
                download_count, dirs, disk, run, fetchLog, getLog, reports, disk0,
                disk1>>

wrapVars == <<wrapper, page_size, days, type_>>

patchVars == <<site_id, extension_number, upc, patch_data, patch_counter, patchLog,
               uresult, uerror>>

retryVars == <<statuses, getLoop, patchLoop>>

nameVars == <<nameArgs, derived>>

vars == <<getVars, exportVars, wrapVars, patchVars, retryVars, nameVars>>

\* What a run of _phone_get, and what a run of the exporter, leaves alone.
besideGet == <<exportVars, wrapVars, patchVars, retryVars, nameVars>>
besideExport == <<getVars, wrapVars, patchVars, retryVars, nameVars>>

-----------------------------------------------------------------------------
(* Bounds of the model *)

MaxPages == 3      \* 200 responses the server gives to one call
MaxRecs == 2       \* recordings the server lists for one user

-----------------------------------------------------------------------------
(* Values *)

None == "None"                 \* Python's None, for key_in_response_to_return
Absent == "<absent>"           \* a key that is not in a dict
KeyName == "recordings"        \* the array field the callers name
TokenKey == "next_page_token"
PageArrays == {<<>>, <<"a">>, <<"b", "a">>}   \* arrays the server returns
Tokens == {"t1", "t2"}         \* non-empty cursors
PageSizes == {300}             \* page_size of the wrappers (line 194)
OtherStatuses == {204, 404}    \* statuses that are neither 200 nor 429

\* A decoded JSON body: the keys it holds and their values (a value of a key
\* that is not held is the type's empty value and is never read).
Body(keys, data, token) ==
    [keys |-> keys, recordings |-> data, next_page_token |-> token]

Bodies ==
    {Body({KeyName, TokenKey}, d, t) :
        d \in PageArrays, t \in Tokens \cup {""}}
    \cup {Body({KeyName}, d, "") : d \in PageArrays}
    \cup {Body({TokenKey}, <<>>, t) : t \in Tokens \cup {""}}
    \cup {Body({}, <<>>, "")}

\* The params argument: None, or a dict holding page_size and, once
\* paginating, next_page_token.
NoParams == [none |-> TRUE, page_size |-> 0, next_page_token |-> Absent]
Dict(ps) == [none |-> FALSE, page_size |-> ps, next_page_token |-> Absent]
ParamsArgs == {NoParams} \cup {Dict(ps) : ps \in PageSizes}

NoError == [kind |-> "none", code |-> 0]
Err(kind) == [kind |-> kind, code |-> 0]
\* A plausible slip: the error names no status code.
StatusErr_NoCode(code) == [kind |-> "RuntimeError:status", code |-> 0]

\* Lines 58-60: RuntimeError("Received status code {status_code} ...").
StatusErr(code) == [kind |-> "RuntimeError:status", code |-> code]

NoResult == [kind |-> "none", json |-> Body({}, <<>>, ""), list |-> <<>>]
JsonResult(b) == [kind |-> "json", json |-> b, list |-> <<>>]
ListResult(l) == [kind |-> "list", json |-> Body({}, <<>>, ""), list |-> l]

-----------------------------------------------------------------------------
(* _phone_get *)

\* The retry bound of line 50: "if rate_limit_counter > 5".
RateLimitBound == 5

\* The parts of the model that a specification does not run stay as they
\* are here.
WrapIdle ==
    /\ wrapper = "_phone_get"
    /\ page_size = 0
    /\ days = 0
    /\ type_ = "all"

PatchIdle ==
    /\ site_id = None
    /\ extension_number = None
    /\ upc = "idle"
    /\ patch_data = {}
    /\ patch_counter = 0
    /\ patchLog = <<>>
    /\ uresult = None
    /\ uerror = NoError

RetryIdle ==
    /\ statuses = <<>>
    /\ getLoop = [state |-> "idle", counter |-> 0, requests |-> 0, code |-> 0]
    /\ patchLoop = [state |-> "idle", counter |-> 0, requests |-> 0, code |-> 0]

NameIdle ==
    /\ nameArgs = <<>>
    /\ derived = <<>>

\* The exporter before it is started (the state of a run of _phone_get alone).
ExportIdle ==
    /\ USER_ID = ""
    /\ phone_user_list = <<>>
    /\ user_2_recording = <<>>
    /\ epc = "idle"
    /\ ui = 1
    /\ du = 1
    /\ ri = 1
    /\ download_count = 0
    /\ dirs = {}
    /\ disk = {}
    /\ run = 1
    /\ fetchLog = <<>>
    /\ getLog = <<>>
    /\ reports = <<>>
    /\ disk0 = {}
    /\ disk1 = {}

InitGet ==
    /\ ExportIdle
    /\ WrapIdle
    /\ PatchIdle
    /\ RetryIdle
    /\ NameIdle
    /\ raw \in BOOLEAN
    /\ key_in_response_to_return \in {None, KeyName}
    /\ params \in ParamsArgs
    /\ origParams = params
    /\ pc = "call"
    /\ inner = FALSE
    /\ rate_limit_counter = 0
    /\ list_of_paged_data_to_return = <<>>
    /\ result = NoResult
    /\ error = NoError
    /\ pages = <<>>
    /\ nGets = 0
    /\ nSleeps = 0
    /\ lastStatus = 0
    /\ consec429 = 0
    /\ sent = <<>>
    /\ lastSent = NoParams
    /\ reqGets = 0

\* raise: the exception leaves the nested call (if any) and the outer call.
Raise(e) ==
    /\ pc' = "raised"
    /\ error' = e
    /\ UNCHANGED <<params, inner, rate_limit_counter,
                   list_of_paged_data_to_return, result>>

\* return of the outer call.
Return(r) ==
    /\ pc' = "returned"
    /\ result' = r
    /\ UNCHANGED <<params, inner, rate_limit_counter, error>>

\* Lines 32-40: argument check, url, rate_limit_counter = 0.
PhoneGetCall ==
    /\ pc = "call"
    /\ IF raw = FALSE /\ key_in_response_to_return = None
       THEN /\ Raise(Err("ValueError"))
            /\ UNCHANGED sent
       ELSE /\ pc' = "request"
            /\ rate_limit_counter' = 0
            /\ sent' = Append(sent, params)
            /\ UNCHANGED <<params, inner, list_of_paged_data_to_return,
                           result, error>>
    /\ UNCHANGED <<raw, key_in_response_to_return, origParams, pages, nGets,
                   nSleeps, lastStatus, consec429, lastSent, reqGets>>
    /\ UNCHANGED besideGet

\* Line 42: session.get(url, params=params) answered with `status`.
IssueGet(status) ==
    /\ nGets' = nGets + 1
    /\ lastStatus' = status
    /\ lastSent' = params
    /\ consec429' = IF status = 429 THEN consec429 + 1 ELSE 0
    /\ reqGets' = IF lastStatus = 429 THEN reqGets + 1 ELSE 1

\* A plausible slip: the retries never end.
RetriesExhausted_Never(counter) == FALSE

\* Line 50: the test that ends the retries.
RetriesExhausted(counter) == counter > RateLimitBound

\* Lines 47-55: a 429 response.
PhoneGet429 ==
    /\ pc = "request"
    /\ IssueGet(429)
    /\ IF RetriesExhausted(rate_limit_counter)
       THEN /\ Raise(Err("RuntimeError:rate"))
            /\ UNCHANGED nSleeps
       ELSE /\ rate_limit_counter' = rate_limit_counter + 1
            /\ nSleeps' = nSleeps + 1
            /\ UNCHANGED <<params, pc, inner, list_of_paged_data_to_return,
                           result, error>>
    /\ UNCHANGED <<raw, key_in_response_to_return, origParams, pages, sent>>
    /\ UNCHANGED besideGet

\* Lines 57-60: a status that is neither 200 nor 429.
PhoneGetOther(status) ==
    /\ pc = "request"
    /\ IssueGet(status)
    /\ Raise(StatusErr(status))
    /\ UNCHANGED <<raw, key_in_response_to_return, origParams, pages, nSleeps,
                   sent>>
    /\ UNCHANGED besideGet

\* Line 69 and line 80: "key_in_response_to_return in raw_json".
KeyIn(k, json) == k \in json.keys

\* Lines 80-84: the accumulator after a follow-up page.
Accumulate(list, json) ==
    IF KeyIn(key_in_response_to_return, json)
    THEN list \o json.recordings
    ELSE list

\* Line 73: the loop test, read as Python evaluates it.
MorePages(json) == json.next_page_token # ""

\* Line 74: params["next_page_token"] = raw_json["next_page_token"].
WithCursor(p, json) == [p EXCEPT !.next_page_token = json.next_page_token]

\* A plausible slip: the counter of the previous request is carried over.
FreshCounter_Carry(c) == c

\* Line 40, as the nested call of line 76 runs it: rate_limit_counter = 0.
FreshCounter(c) == 0

\* Lines 73-86: the pagination loop, entered with the page just decoded and
\* the accumulator; it raises, starts the nested call of line 76 or returns.
Paginate(json, list) ==
    /\ list_of_paged_data_to_return' = list
    /\ IF ~KeyIn(TokenKey, json)
       THEN \* raw_json["next_page_token"] raises KeyError
            /\ pc' = "raised"
            /\ error' = Err("KeyError")
            /\ UNCHANGED <<params, inner, rate_limit_counter, result, sent>>
       ELSE IF MorePages(json)
       THEN IF params.none
            THEN \* None["next_page_token"] = ... raises TypeError
                 /\ pc' = "raised"
                 /\ error' = Err("TypeError")
                 /\ UNCHANGED <<params, inner, rate_limit_counter, result, sent>>
            ELSE \* nested _phone_get(endpoint_url, params, True, key)
                 /\ params' = WithCursor(params, json)
                 /\ inner' = TRUE
                 /\ rate_limit_counter' = FreshCounter(rate_limit_counter)
                 /\ sent' = Append(sent, params')
                 /\ UNCHANGED <<pc, result, error>>
       ELSE /\ Return(ListResult(list))
            /\ UNCHANGED sent

\* A plausible slip: raw mode hands back only the named array.
RawReturn_Extract(json) == JsonResult(Body({KeyName}, json.recordings, ""))

\* Lines 64-66: raw mode returns the decoded body as it is.
RawReturn(json) == JsonResult(json)

\* Lines 44-45 and 62-91: a 200 response with decoded body `json`.
PhoneGet200(json) ==
    /\ pc = "request"
    /\ Len(pages) < MaxPages
    /\ IssueGet(200)
    /\ pages' = Append(pages, json)
    /\ IF inner
       THEN \* the nested call returns json (line 66); lines 80-84, then the loop
            Paginate(json, Accumulate(list_of_paged_data_to_return, json))
       ELSE IF raw
       THEN /\ Return(RawReturn(json))
            /\ UNCHANGED <<list_of_paged_data_to_return, sent>>
       ELSE IF KeyIn(key_in_response_to_return, json)
       THEN Paginate(json, json.recordings)
       ELSE /\ Raise(Err("RuntimeWarning"))
            /\ UNCHANGED sent
    /\ UNCHANGED <<raw, key_in_response_to_return, origParams, nSleeps>>
    /\ UNCHANGED besideGet

NextGet ==
    \/ PhoneGetCall
    \/ PhoneGet429
    \/ \E s \in OtherStatuses : PhoneGetOther(s)
    \/ \E b \in Bodies : PhoneGet200(b)

SpecGet == InitGet /\ [][NextGet]_vars

-----------------------------------------------------------------------------
(* The list/get wrappers of _phone_get (lines 139-264) *)

Wrappers ==
    {"phone_list_users", "phone_get_user_call_recordings",
     "phone_get_user_call_logs", "phone_get_account_call_logs"}
TakeDates == {"phone_get_user_call_logs", "phone_get_account_call_logs"}

PageSizeArgs == {0, 1, 101, 301}
DaysArgs == {30, 31}               \* (to_date - from_date).days
TypeArgs == {"all", "missed", "bogus"}

\* Lines 140, 174, 198 and 244: the largest page_size a wrapper accepts.
MaxPageSize(w) == IF w = "phone_list_users" THEN 100 ELSE 300

\* Lines 171 and 241: the longest date range, in days.
MaxDays == 30

\* A plausible slip: the page_size test is missing.
ValidPageSize_Any(w, ps) == TRUE

\* Lines 140, 174, 198 and 244: "page_size > max or page_size < 1" is false.
ValidPageSize(w, ps) == ~(ps > MaxPageSize(w) \/ ps < 1)

\* The key_in_response_to_return a wrapper passes on.
WrapperKey(w) ==
    CASE w = "phone_list_users" -> "users"
      [] w = "phone_get_user_call_recordings" -> KeyName
      [] OTHER -> "call_logs"

\* The first failing check of a wrapper, in the order of its lines, or NoError.
Validate(w, ps, d, t) ==
    IF w \in TakeDates /\ d > MaxDays THEN Err("RuntimeWarning:range")
    ELSE IF ~ValidPageSize(w, ps) THEN Err("ValueError:page_size")
    ELSE IF w = "phone_get_account_call_logs" /\ t \notin {"all", "missed"}
    THEN Err("ValueError:type")
    ELSE NoError

\* A wrapper is about to run on its arguments, or _phone_get is called
\* directly without key_in_response_to_return.
InitWrap ==
    /\ ExportIdle
    /\ PatchIdle
    /\ RetryIdle
    /\ NameIdle
    /\ wrapper \in Wrappers \cup {"_phone_get"}
    /\ raw \in BOOLEAN
    /\ key_in_response_to_return = None
    /\ IF wrapper = "_phone_get"
       THEN /\ page_size = 0
            /\ params \in ParamsArgs
            /\ pc = "call"
       ELSE /\ page_size \in PageSizeArgs
            /\ params = NoParams
            /\ pc = "wrapper"
    /\ IF wrapper \in TakeDates
       THEN days \in DaysArgs /\ type_ \in TypeArgs
       ELSE days = 0 /\ type_ = "all"
    /\ origParams = params
    /\ inner = FALSE
    /\ rate_limit_counter = 0
    /\ list_of_paged_data_to_return = <<>>
    /\ result = NoResult
    /\ error = NoError
    /\ pages = <<>>
    /\ nGets = 0
    /\ nSleeps = 0
    /\ lastStatus = 0
    /\ consec429 = 0
    /\ sent = <<>>
    /\ lastSent = NoParams
    /\ reqGets = 0

\* Lines 140-148, 171-187, 198-208 and 241-262: the checks of a wrapper, then
\* its call of _phone_get.
WrapperCall ==
    /\ pc = "wrapper"
    /\ IF Validate(wrapper, page_size, days, type_) # NoError
       THEN /\ Raise(Validate(wrapper, page_size, days, type_))
            /\ UNCHANGED <<key_in_response_to_return, origParams>>
       ELSE /\ pc' = "call"
            /\ params' = Dict(page_size)
            /\ origParams' = Dict(page_size)
            /\ key_in_response_to_return' = WrapperKey(wrapper)
            /\ UNCHANGED <<inner, rate_limit_counter,
                           list_of_paged_data_to_return, result, error>>
    /\ UNCHANGED <<raw, pages, nGets, nSleeps, lastStatus, consec429, sent,
                   lastSent, reqGets>>
    /\ UNCHANGED besideGet

NextWrap == WrapperCall \/ NextGet

SpecWrap == InitWrap /\ [][NextWrap]_vars

-----------------------------------------------------------------------------
(* call_recordings.py: values *)

Users == {"ann@example.com", "bob@example.com"}

\* A date_time string, character by character.
Stamp1 == <<"2","0","2","0","-","0","8","-","2","1","T","2","2",":","1","7",":","0","5","Z">>
Stamp2 == <<"2","0","2","0","-","0","8","-","2","1","T","2","2",":","1","7",":","4","0","Z">>
Stamp3 == <<"2","0","2","1","-","1","1","-","0","5","T","0","9",":","0","3",":","0","0","Z">>

Recording(stamp, caller, callee, url) ==
    [date_time |-> stamp, caller_number |-> caller, callee_number |-> callee,
     download_url |-> url]

\* Rec1 and Rec2 are two calls between the same parties in the same minute.
Rec1 == Recording(Stamp1, "16505551212", "104", "https://zoom/rec/1")
Rec2 == Recording(Stamp2, "16505551212", "104", "https://zoom/rec/2")
Rec3 == Recording(Stamp3, "104", "16505551212", "https://zoom/rec/3")
Recordings == {Rec1, Rec2, Rec3}

RECURSIVE SeqsUpTo(_, _)
SeqsUpTo(S, n) ==
    IF n = 0 THEN {<<>>}
    ELSE LET shorter == SeqsUpTo(S, n - 1)
         IN  shorter \cup {Append(q, x) : q \in shorter, x \in S}

RecordingLists == SeqsUpTo(Recordings, MaxRecs)

\* What list_users can return: the users of the account, each once.
UserLists ==
    {l \in SeqsUpTo(Users, Cardinality(Users)) :
        \A i, j \in 1..Len(l) : i # j => l[i] # l[j]}

\* The response of session.get(download_url): its status and content.
Response(status, url) ==
    [status_code |-> status,
     content |-> IF status = 200 THEN "mp3 of " \o url ELSE "error page"]
DownloadStatuses == {200, 404}

-----------------------------------------------------------------------------
(* call_recordings.py: file names *)

DigitVal(c) ==
    CASE c = "0" -> 0 [] c = "1" -> 1 [] c = "2" -> 2 [] c = "3" -> 3
      [] c = "4" -> 4 [] c = "5" -> 5 [] c = "6" -> 6 [] c = "7" -> 7
      [] c = "8" -> 8 [] c = "9" -> 9

RECURSIVE ParseInt(_)
ParseInt(cs) ==
    IF cs = <<>> THEN 0
    ELSE 10 * ParseInt(SubSeq(cs, 1, Len(cs) - 1)) + DigitVal(cs[Len(cs)])

\* Lines 46-48: strptime(date_time, "%Y-%m-%dT%H:%M:%SZ") of a zero-padded stamp.
Strptime(cs) ==
    [year |-> ParseInt(SubSeq(cs, 1, 4)), month |-> ParseInt(SubSeq(cs, 6, 7)),
     day |-> ParseInt(SubSeq(cs, 9, 10)), hour |-> ParseInt(SubSeq(cs, 12, 13)),
     minute |-> ParseInt(SubSeq(cs, 15, 16)),
     second |-> ParseInt(SubSeq(cs, 18, 19))]

\* A plausible slip: the field is not padded.
Zfill2_None(n) == ToString(n)

\* str(n).zfill(2)
Zfill2(n) == IF Len(ToString(n)) < 2 THEN "0" \o ToString(n) ELSE ToString(n)

\* os.path.join
Join(a, b) == a \o "/" \o b

\* Line 35.
dirName == "recordings"

\* Lines 52-57: this_directory_name.
DirectoryName(user, rec) ==
    LET d == Strptime(rec.date_time)
    IN  Join(Join(Join(dirName, ToString(d.year)), ToString(d.month)), user)

\* Lines 63-75: this_filename_is.
FileName(rec) ==
    LET d == Strptime(rec.date_time)
    IN  ToString(d.year) \o Zfill2(d.month) \o Zfill2(d.day) \o "-"
        \o Zfill2(d.hour) \o Zfill2(d.minute) \o "-" \o rec.caller_number
        \o "-" \o rec.callee_number \o ".mp3"

\* Line 78: os.path.join(this_directory_name, this_filename_is).
FilePath(user, rec) == Join(DirectoryName(user, rec), FileName(rec))

\* The two names of every user and recording of the model, computed once.
DirectoryNames == [u \in Users, r \in Recordings |-> DirectoryName(u, r)]
FilePaths == [u \in Users, r \in Recordings |-> FilePath(u, r)]

-----------------------------------------------------------------------------
(* call_recordings.py: the file system and the dict *)

\* A plausible slip: the existence test always answers "not there".
Exists_Never(files, path) == FALSE

\* Line 78: os.path.exists(path).
Exists(files, path) == \E f \in files : f.path = path

\* A plausible slip: the body is never written to the path.
WriteFile_Drop(files, path, content) == files

\* Lines 82-84: open(path, "wb").write(content).
WriteFile(files, path, content) ==
    {f \in files : f.path # path} \cup {[path |-> path, content |-> content]}

\* Line 122: user_2_recording[email] = recordings.
DictSet(d, k, v) ==
    IF \E i \in 1..Len(d) : d[i].user = k
    THEN [i \in 1..Len(d) |-> IF d[i].user = k THEN [user |-> k, recs |-> v] ELSE d[i]]
    ELSE Append(d, [user |-> k, recs |-> v])

\* A file left by an earlier export of another recording list.
StaleFile ==
    [path |-> FilePaths["ann@example.com", Rec1], content |-> "stale"]
InitialDisks == {{}, {StaleFile}}

-----------------------------------------------------------------------------
(* get_call_recordings and download_call_recordings *)

GetIdle ==
    /\ raw = FALSE
    /\ key_in_response_to_return = None
    /\ params = NoParams
    /\ origParams = NoParams
    /\ pc = "idle"
    /\ inner = FALSE
    /\ rate_limit_counter = 0
    /\ list_of_paged_data_to_return = <<>>
    /\ result = NoResult
    /\ error = NoError
    /\ pages = <<>>
    /\ nGets = 0
    /\ nSleeps = 0
    /\ lastStatus = 0
    /\ consec429 = 0
    /\ sent = <<>>
    /\ lastSent = NoParams
    /\ reqGets = 0

InitExport ==
    /\ GetIdle
    /\ WrapIdle
    /\ PatchIdle
    /\ RetryIdle
    /\ NameIdle
    /\ USER_ID \in {""} \cup Users
    /\ phone_user_list = <<>>
    /\ user_2_recording = <<>>
    /\ epc = "start"
    /\ ui = 1
    /\ du = 1
    /\ ri = 1
    /\ download_count = 0
    /\ disk \in InitialDisks
    /\ dirs = {DirectoryNames["ann@example.com", Rec1] : f \in disk}
    /\ run = 1
    /\ fetchLog = <<>>
    /\ getLog = <<>>
    /\ reports = <<>>
    /\ disk0 = disk
    /\ disk1 = {}

\* Lines 100-107: the users to export.
ExportStart ==
    /\ epc = "start"
    /\ IF USER_ID = ""
       THEN \E l \in UserLists : phone_user_list' = l
       ELSE phone_user_list' = <<USER_ID>>
    /\ epc' = "fetch"
    /\ UNCHANGED <<USER_ID, user_2_recording, ui, du, ri, download_count, dirs,
                   disk, run, fetchLog, getLog, reports, disk0, disk1>>
    /\ UNCHANGED besideExport

\* Line 105: list_users() raises; nothing catches it.
ExportListUsersFails ==
    /\ epc = "start"
    /\ USER_ID = ""
    /\ epc' = "aborted"
    /\ UNCHANGED <<USER_ID, phone_user_list, user_2_recording, ui, du, ri,
                   download_count, dirs, disk, run, fetchLog, getLog, reports,
                   disk0, disk1>>
    /\ UNCHANGED besideExport

\* A plausible slip: no try/except around the fetch.
OnFetchError_Abort == epc' = "aborted" /\ UNCHANGED ui

\* Lines 125-126: the exception is logged and the loop goes on.
OnFetchError == epc' = epc /\ ui' = ui + 1

\* Lines 111-124: the metadata fetch of one user succeeds with `recs`.
FetchUser(recs) ==
    /\ epc = "fetch"
    /\ ui <= Len(phone_user_list)
    /\ LET email == phone_user_list[ui]
       IN  /\ fetchLog' = Append(fetchLog, [user |-> email, ok |-> TRUE, recs |-> recs])
           /\ user_2_recording' =
                IF Len(recs) > 0 THEN DictSet(user_2_recording, email, recs)
                ELSE user_2_recording
    /\ ui' = ui + 1
    /\ UNCHANGED <<USER_ID, phone_user_list, epc, du, ri, download_count, dirs,
                   disk, run, getLog, reports, disk0, disk1>>
    /\ UNCHANGED besideExport

\* Lines 111-126: the metadata fetch of one user raises.
FetchUserFails ==
    /\ epc = "fetch"
    /\ ui <= Len(phone_user_list)
    /\ fetchLog' = Append(fetchLog, [user |-> phone_user_list[ui], ok |-> FALSE, recs |-> <<>>])
    /\ OnFetchError
    /\ UNCHANGED <<USER_ID, phone_user_list, user_2_recording, du, ri,
                   download_count, dirs, disk, run, getLog, reports, disk0, disk1>>
    /\ UNCHANGED besideExport

\* Lines 37-40: the user loop reaches position `d`: the next user starts with
\* download_count = 0, or the loop and the run are over.
EnterUser(d) ==
    /\ du' = d
    /\ ri' = 1
    /\ download_count' = 0
    /\ epc' = IF d > Len(user_2_recording) THEN "done" ELSE "download"
    /\ disk1' = IF d > Len(user_2_recording) /\ run = 1 THEN disk ELSE disk1

\* Lines 128-131: the fetch loop is over; download_call_recordings is called.
CallDownload ==
    /\ epc = "fetch"
    /\ ui > Len(phone_user_list)
    /\ EnterUser(1)
    /\ UNCHANGED <<USER_ID, phone_user_list, user_2_recording, ui, dirs, disk,
                   run, fetchLog, getLog, reports, disk0>>
    /\ UNCHANGED besideExport

\* download_call_recordings is called again with the same mapping.
CallDownloadAgain ==
    /\ epc = "done"
    /\ run = 1
    /\ run' = 2
    /\ EnterUser(1)
    /\ UNCHANGED <<USER_ID, phone_user_list, user_2_recording, ui, dirs, disk,
                   fetchLog, getLog, reports, disk0>>
    /\ UNCHANGED besideExport

ThisUser == user_2_recording[du].user
ThisRecording == user_2_recording[du].recs[ri]
ThisDirectory == DirectoryNames[ThisUser, ThisRecording]
ThisPath == FilePaths[ThisUser, ThisRecording]
AtRecording ==
    /\ epc = "download"
    /\ du <= Len(user_2_recording)
    /\ ri <= Len(user_2_recording[du].recs)

LogGet(failed, status, content) ==
    getLog' = Append(getLog,
        [run |-> run, user |-> ThisUser, path |-> ThisPath,
         url |-> ThisRecording.download_url,
         existed |-> \E f \in disk : f.path = ThisPath,
         failed |-> failed,
         status_code |-> status,
         content |-> IF failed THEN "" ELSE content])

\* Lines 58-59: os.makedirs(this_directory_name) if it does not exist.
MakeDirs == dirs' = dirs \cup {ThisDirectory}

\* Lines 45-78: a recording whose file is on disk is passed over.
RecordingSkipped ==
    /\ AtRecording
    /\ Exists(disk, ThisPath)
    /\ MakeDirs
    /\ ri' = ri + 1
    /\ UNCHANGED <<USER_ID, phone_user_list, user_2_recording, epc, ui, du,
                   download_count, disk, run, fetchLog, getLog, reports, disk0,
                   disk1>>
    /\ UNCHANGED besideExport

\* A plausible slip: only the body of a 200 response is kept.
BodyToWrite_OnlyOk(response) ==
    IF response.status_code = 200 THEN response.content ELSE ""

\* Line 83: recording_request_response.content, whatever the status.
BodyToWrite(response) == response.content

\* Lines 45-86: the file is not on disk; the GET answers with `status`.
RecordingDownloaded(status) ==
    /\ AtRecording
    /\ ~Exists(disk, ThisPath)
    /\ MakeDirs
    /\ LogGet(FALSE, status, Response(status, ThisRecording.download_url).content)
    /\ disk' = WriteFile(disk, ThisPath,
                         BodyToWrite(Response(status, ThisRecording.download_url)))
    /\ download_count' = download_count + 1
    /\ ri' = ri + 1
    /\ UNCHANGED <<USER_ID, phone_user_list, user_2_recording, epc, ui, du,
                   run, fetchLog, reports, disk0, disk1>>
    /\ UNCHANGED besideExport

\* A plausible slip: the failed download is logged and passed over.
OnDownloadError_Skip == epc' = epc /\ ri' = ri + 1

\* Line 80: session.get raises; nothing in download_call_recordings or in
\* get_call_recordings catches it.
OnDownloadError == epc' = "aborted" /\ ri' = ri

\* Lines 45-80: the file is not on disk; the GET raises.
RecordingDownloadFails ==
    /\ AtRecording
    /\ ~Exists(disk, ThisPath)
    /\ MakeDirs
    /\ LogGet(TRUE, 0, "")
    /\ OnDownloadError
    /\ UNCHANGED <<USER_ID, phone_user_list, user_2_recording, ui, du,
                   download_count, disk, run, fetchLog, reports, disk0, disk1>>
    /\ UNCHANGED besideExport

\* Line 88: the recordings of this user are done; the count is reported.
UserDone ==
    /\ epc = "download"
    /\ du <= Len(user_2_recording)
    /\ ri > Len(user_2_recording[du].recs)
    /\ reports' = Append(reports,
                    [run |-> run, user |-> ThisUser, count |-> download_count])
    /\ EnterUser(du + 1)
    /\ UNCHANGED <<USER_ID, phone_user_list, user_2_recording, ui, dirs, disk,
                   run, fetchLog, getLog, disk0>>
    /\ UNCHANGED besideExport

NextExport ==
    \/ ExportStart
    \/ ExportListUsersFails
    \/ \E recs \in RecordingLists : FetchUser(recs)
    \/ FetchUserFails
    \/ CallDownload
    \/ CallDownloadAgain
    \/ RecordingSkipped
    \/ \E status \in DownloadStatuses : RecordingDownloaded(status)
    \/ RecordingDownloadFails
    \/ UserDone

SpecExport == InitExport /\ [][NextExport]_vars

-----------------------------------------------------------------------------
(* The file name of one recording (lines 45-78 of call_recordings.py) *)

\* The moments, parties and users the names are derived for.
Years == {2020, 2021}
Months == {1, 8, 12}
Days == {5, 21}
Hours == {0, 22}
Minutes == {3, 17}
Seconds == {5, 40}
Parties == {<<"16505551212", "104">>, <<"104", "105">>}

Moments ==
    [year : Years, month : Months, day : Days, hour : Hours, minute : Minutes,
     second : Seconds]

DigitChar(n) ==
    CASE n = 0 -> "0" [] n = 1 -> "1" [] n = 2 -> "2" [] n = 3 -> "3"
      [] n = 4 -> "4" [] n = 5 -> "5" [] n = 6 -> "6" [] n = 7 -> "7"
      [] n = 8 -> "8" [] n = 9 -> "9"

TwoDigits(n) == <<DigitChar(n \div 10), DigitChar(n % 10)>>

\* The date_time the API sends for a moment: "yyyy-mm-ddThh:mm:ssZ".
StampOf(m) ==
    TwoDigits(m.year \div 100) \o TwoDigits(m.year % 100) \o <<"-">>
    \o TwoDigits(m.month) \o <<"-">> \o TwoDigits(m.day) \o <<"T">>
    \o TwoDigits(m.hour) \o <<":">> \o TwoDigits(m.minute) \o <<":">>
    \o TwoDigits(m.second) \o <<"Z">>

NameArgs == [user : Users, moment : Moments, parties : Parties]

NameRecording(a) ==
    Recording(StampOf(a.moment), a.parties[1], a.parties[2], "https://zoom/rec/1")

InitName ==
    /\ GetIdle
    /\ ExportIdle
    /\ WrapIdle
    /\ PatchIdle
    /\ RetryIdle
    /\ nameArgs \in NameArgs
    /\ derived = <<>>

\* Lines 45-78: the directory, the file name and the path of the recording.
DeriveName ==
    /\ derived = <<>>
    /\ derived' = [directory |-> DirectoryName(nameArgs.user, NameRecording(nameArgs)),
                   filename |-> FileName(NameRecording(nameArgs)),
                   path |-> FilePath(nameArgs.user, NameRecording(nameArgs))]
    /\ UNCHANGED <<nameArgs, getVars, exportVars, wrapVars, patchVars, retryVars>>

NextName == DeriveName

SpecName == InitName /\ [][NextName]_vars

-----------------------------------------------------------------------------
(* _phone_patch (lines 93-132) and the retry loop of _phone_get, as steps *)

\* The retry bound of line 122: "if rate_limit_counter > 5".
PatchRateLimitBound == 5

\* A retry loop: where it is, its counter, the requests made, and the status
\* code a status failure carries.
Running == [state |-> "running", counter |-> 0, requests |-> 0, code |-> 0]

\* A plausible slip: the PATCH loop gives up one 429 earlier.
PatchRetriesExhausted_Early(counter) == counter >= PatchRateLimitBound

\* Line 122: the test that ends the retries of a PATCH.
PatchRetriesExhausted(counter) == counter > PatchRateLimitBound

\* Lines 113-132: one session.patch answered with `status`.
PatchLoopStep(l, status) ==
    IF status \in {200, 204}
    THEN [l EXCEPT !.state = "success", !.requests = @ + 1, !.code = status]
    ELSE IF status = 429
    THEN IF PatchRetriesExhausted(l.counter)
         THEN [l EXCEPT !.state = "rate", !.requests = @ + 1]
         ELSE [l EXCEPT !.counter = @ + 1, !.requests = @ + 1]
    ELSE [l EXCEPT !.state = "status", !.requests = @ + 1, !.code = status]

\* Lines 42-60: one session.get answered with `status`.
GetLoopStep(l, status) ==
    IF status = 200
    THEN [l EXCEPT !.state = "success", !.requests = @ + 1, !.code = status]
    ELSE IF status = 429
    THEN IF RetriesExhausted(l.counter)
         THEN [l EXCEPT !.state = "rate", !.requests = @ + 1]
         ELSE [l EXCEPT !.counter = @ + 1, !.requests = @ + 1]
    ELSE [l EXCEPT !.state = "status", !.requests = @ + 1, !.code = status]

-----------------------------------------------------------------------------
(* The two loops against the same answers *)

MaxRateLimited == 8     \* 429s in a row the server answers with
FinalStatuses == {200, 204, 400, 404, 500}

RateLimited(k) == [i \in 1..k |-> 429]

\* k 429s and one final status.
StatusSequences ==
    {Append(RateLimited(k), f) : k \in 0..MaxRateLimited, f \in FinalStatuses}

InitRetry ==
    /\ GetIdle
    /\ ExportIdle
    /\ WrapIdle
    /\ PatchIdle
    /\ NameIdle
    /\ statuses \in StatusSequences
    /\ getLoop = Running
    /\ patchLoop = Running

\* The loop of _phone_get makes its next request.
GetLoopRequest ==
    /\ getLoop.state = "running"
    /\ getLoop.requests < Len(statuses)
    /\ getLoop' = GetLoopStep(getLoop, statuses[getLoop.requests + 1])
    /\ UNCHANGED <<statuses, patchLoop, getVars, exportVars, wrapVars,
                   patchVars, nameVars>>

\* The loop of _phone_patch makes its next request.
PatchLoopRequest ==
    /\ patchLoop.state = "running"
    /\ patchLoop.requests < Len(statuses)
    /\ patchLoop' = PatchLoopStep(patchLoop, statuses[patchLoop.requests + 1])
    /\ UNCHANGED <<statuses, getLoop, getVars, exportVars, wrapVars,
                   patchVars, nameVars>>

NextRetry == GetLoopRequest \/ PatchLoopRequest

SpecRetry == InitRetry /\ [][NextRetry]_vars

-----------------------------------------------------------------------------
(* phone_update_user_profile (lines 337-373) *)

SiteIds == {None, "", "site-1"}
ExtensionNumbers == {None, "", "104"}
PatchStatuses == {200, 204, 429, 404}
Processed == "Request processed by API"

\* Python's truth value of an optional string.
Truthy(x) == x # None /\ x # ""

\* Lines 346-347, 355-356 and 362-366: the dict "data", as its items.
SiteData == {<<"site_id", site_id>>}
ExtensionData == {<<"extension_number", extension_number>>}
SingleData ==
    (IF Truthy(site_id) THEN SiteData ELSE {})
    \cup (IF Truthy(extension_number) THEN ExtensionData ELSE {})

InitPatch ==
    /\ GetIdle
    /\ ExportIdle
    /\ WrapIdle
    /\ RetryIdle
    /\ NameIdle
    /\ site_id \in SiteIds
    /\ extension_number \in ExtensionNumbers
    /\ upc = "call"
    /\ patch_data = {}
    /\ patch_counter = 0
    /\ patchLog = <<>>
    /\ uresult = None
    /\ uerror = NoError

\* _phone_patch is entered with `d`: lines 108-111.
SendPatch(d) ==
    /\ patch_data' = d
    /\ patch_counter' = 0
    /\ patchLog' = Append(patchLog, [data |-> d, requests |-> 0, status |-> 0])

\* Lines 340-350 and 361-370: the first (or only) PATCH is prepared.
UpdateCall ==
    /\ upc = "call"
    /\ IF Truthy(site_id) /\ Truthy(extension_number)
       THEN SendPatch(SiteData) /\ upc' = "patch_site"
       ELSE SendPatch(SingleData) /\ upc' = "patch"
    /\ UNCHANGED <<site_id, extension_number, uresult, uerror>>
    /\ UNCHANGED <<getVars, exportVars, wrapVars, retryVars, nameVars>>

\* The PATCH in flight, as a loop, and the loop after `status`.
ThisPatch ==
    [state |-> "running", counter |-> patch_counter,
     requests |-> patchLog[Len(patchLog)].requests, code |-> 0]
Answered(status) == PatchLoopStep(ThisPatch, status)
Logged(status, final) ==
    [patchLog EXCEPT ![Len(patchLog)].requests = @ + 1,
                     ![Len(patchLog)].status = final]

\* A plausible slip: a 200 to the site PATCH counts as "changed" too.
SiteChanged_AnyOk(status) == status \in {200, 204}

\* Line 352: the site PATCH was processed.
SiteChanged(status) == status = 204

\* Lines 372-373: the value returned for the last response.
Returned(status) == IF status = 204 THEN Processed ELSE None

\* Lines 115-117, then lines 352-359 or 372-373: a PATCH is answered 200 or 204.
PatchOk(status) ==
    /\ upc \in {"patch_site", "patch", "patch_extension"}
    /\ Answered(status).state = "success"
    /\ IF upc = "patch_site" /\ SiteChanged(status)
       THEN /\ patch_data' = ExtensionData
            /\ patch_counter' = 0
            /\ patchLog' = Append(Logged(status, status),
                                  [data |-> ExtensionData, requests |-> 0, status |-> 0])
            /\ upc' = "patch_extension"
            /\ UNCHANGED uresult
       ELSE /\ patchLog' = Logged(status, status)
            /\ upc' = "returned"
            /\ uresult' = Returned(status)
            /\ UNCHANGED <<patch_data, patch_counter>>
    /\ UNCHANGED <<site_id, extension_number, uerror>>
    /\ UNCHANGED <<getVars, exportVars, wrapVars, retryVars, nameVars>>

\* Lines 119-127: a PATCH is answered 429.
Patch429 ==
    /\ upc \in {"patch_site", "patch", "patch_extension"}
    /\ IF Answered(429).state = "rate"
       THEN /\ upc' = "raised"
            /\ uerror' = Err("RuntimeError:rate")
            /\ patchLog' = Logged(429, 429)
            /\ UNCHANGED patch_counter
       ELSE /\ patch_counter' = Answered(429).counter
            /\ patchLog' = Logged(429, 0)
            /\ UNCHANGED <<upc, uerror>>
    /\ UNCHANGED <<site_id, extension_number, patch_data, uresult>>
    /\ UNCHANGED <<getVars, exportVars, wrapVars, retryVars, nameVars>>

\* Lines 129-132: a PATCH is answered with another status.
PatchOther(status) ==
    /\ upc \in {"patch_site", "patch", "patch_extension"}
    /\ Answered(status).state = "status"
    /\ upc' = "raised"
    /\ uerror' = StatusErr(status)
    /\ patchLog' = Logged(status, status)
    /\ UNCHANGED <<site_id, extension_number, patch_data, patch_counter, uresult>>
    /\ UNCHANGED <<getVars, exportVars, wrapVars, retryVars, nameVars>>

NextPatch ==
    \/ UpdateCall
    \/ \E status \in PatchStatuses : PatchOk(status)
    \/ Patch429
    \/ \E status \in PatchStatuses : PatchOther(status)

SpecPatch == InitPatch /\ [][NextPatch]_vars

-----------------------------------------------------------------------------
(* Properties of _phone_get *)

RECURSIVE Concat(_)
Concat(ps) ==
    IF ps = <<>> THEN <<>> ELSE ps[1].recordings \o Concat(Tail(ps))

Paging == ~raw /\ key_in_response_to_return = KeyName
Only200s == nGets = Len(pages)
CarriesBoth(json) == KeyIn(KeyName, json) /\ KeyIn(TokenKey, json)
LastPage == pages[Len(pages)]

\* Pages as the claim C1 takes them: each carries the named field and a
\* cursor, and no page before the last has an empty cursor.
WellFormedPages ==
    /\ \A i \in 1..Len(pages) : CarriesBoth(pages[i])
    /\ \A i \in 1..(Len(pages) - 1) : pages[i].next_page_token # ""

\* C1: a non-raw call answered only with well-formed 200 pages never fails,
\* and once the page with the empty cursor has arrived it has returned the
\* concatenation of all the pages' arrays, in page order.
C1_ConcatAllPages ==
    (Paging /\ pages # <<>> /\ Only200s /\ WellFormedPages)
        => /\ pc # "raised"
           /\ LastPage.next_page_token = ""
                => pc = "returned" /\ result = ListResult(Concat(pages))

\* The same statement for calls that pass a params dict (not a claim of its
\* own: the part of C1 and C9 that the code does satisfy).
ConcatWhenParamsGiven == params.none \/ C1_ConcatAllPages

\* C2: six consecutive 429 answers to one request end the call with the
\* retries-exhausted error, so a request never sees more than six.
C2_SixAttempts ==
    consec429 >= 6
        => consec429 = 6 /\ pc = "raised" /\ error = Err("RuntimeError:rate")

\* What the code does instead: it gives up on the 7th consecutive 429.
SevenAttempts ==
    /\ consec429 <= RateLimitBound + 2
    /\ (pc = "raised" /\ error = Err("RuntimeError:rate"))
            <=> consec429 = RateLimitBound + 2

\* C3: in non-raw mode a 200 page without the named field, first or
\* follow-up, ends the call with the missing-data error; the call neither
\* returns nor goes on paginating. (Stated for pages that do carry a cursor,
\* so that the missing field is the only thing wrong with the page.)
C3_MissingFieldRaises ==
    (Paging /\ \E i \in 1..Len(pages) :
                 ~KeyIn(KeyName, pages[i]) /\ KeyIn(TokenKey, pages[i]))
        => pc = "raised" /\ error = Err("RuntimeWarning")

\* What the code does: the missing-data error is raised for the first page
\* only (not a claim of its own).
MissingFieldOnFirstPage ==
    (Paging /\ pages # <<>>)
        => (~KeyIn(KeyName, pages[1])
                <=> pc = "raised" /\ error = Err("RuntimeWarning"))

\* C4: a status other than 200 and 429 ends the call at once with the
\* request-failure error carrying that status: nothing is returned, the
\* failing response is followed by no pause (every GET so far was a page, a
\* slept-on 429 or this response) and by no further step.
C4_OtherStatusFails ==
    lastStatus \in OtherStatuses
        => /\ pc = "raised"
           /\ error.kind = "RuntimeError:status"
           /\ error.code = lastStatus
           /\ result = NoResult
           /\ nGets = Len(pages) + nSleeps + 1
           /\ ~ENABLED NextGet

C4_Witness ==
    /\ lastStatus = 404
    /\ pc = "raised"
    /\ nSleeps >= 2
    /\ Len(pages) >= 1

\* C9: while paginating, a follow-up request exists exactly when the latest
\* page's cursor is non-empty, and the k-th follow-up carries the original
\* parameters plus the cursor of page k.
C9_FollowUpIffCursor ==
    (Paging /\ pages # <<>> /\ KeyIn(KeyName, pages[1]))
        => /\ Len(sent) = Len(pages) + 1
                <=> (KeyIn(TokenKey, LastPage) /\ LastPage.next_page_token # "")
           /\ \A k \in 1..(Len(sent) - 1) :
                sent[k + 1] = WithCursor(origParams, pages[k])
           /\ lastSent = sent[IF lastStatus = 200 THEN Len(pages) ELSE Len(sent)]

FollowUpWhenParamsGiven == params.none \/ C9_FollowUpIffCursor

\* C10: raw mode returns the decoded body of the one 200 response as it is:
\* one request, no follow-up whatever the cursor, no need of the field.
C10_RawVerbatim ==
    (raw /\ pages # <<>>)
        => /\ pc = "returned"
           /\ result = JsonResult(pages[1])
           /\ Len(pages) = 1
           /\ Len(sent) = 1
           /\ params = origParams
           /\ ~ENABLED NextGet

C10_Witness ==
    /\ raw
    /\ pc = "returned"
    /\ pages # <<>>
    /\ ~KeyIn(KeyName, pages[1])
    /\ pages[1].next_page_token = "t1"
    /\ nSleeps >= 1

\* C12: the retry loop of one request needs a bounded number of GETs: a
\* request never has more than RateLimitBound + 2; in the rate-limited state
\* the counter equals the GETs made, so each 429 brings the bound nearer;
\* a 429 at the bound and any status other than 200 and 429 end the call;
\* and a call that has ended takes no further step.
C12_RetryLoopTerminates ==
    /\ reqGets <= RateLimitBound + 2
    /\ (pc = "request" /\ lastStatus = 429)
            => reqGets = rate_limit_counter /\ reqGets <= RateLimitBound + 1
    /\ (lastStatus = 429 /\ reqGets = RateLimitBound + 2)
            => pc = "raised" /\ error = Err("RuntimeError:rate")
    /\ lastStatus \in OtherStatuses => pc = "raised"
    /\ pc \in {"returned", "raised"} => ~ENABLED NextGet

\* The retries of a follow-up request were used up.
C12_Witness ==
    /\ pc = "raised"
    /\ error = Err("RuntimeError:rate")
    /\ reqGets = RateLimitBound + 2
    /\ Len(pages) >= 1

\* C14: the retry budget belongs to the request: while a request is being
\* made the counter is the number of 429s answered to that request alone,
\* and the retries-exhausted error is raised only on the 429 that exceeds
\* that request's own allowance, whatever the earlier pages cost.
C14_BudgetPerRequest ==
    /\ pc = "request" => rate_limit_counter = consec429
    /\ (pc = "raised" /\ error = Err("RuntimeError:rate"))
            => consec429 = RateLimitBound + 2

\* A fetch that slept through the whole allowance on each of its pages and
\* returned.
C14_Witness ==
    /\ pc = "returned"
    /\ result.kind = "list"
    /\ Len(pages) >= 2
    /\ nSleeps = (RateLimitBound + 1) * Len(pages)

-----------------------------------------------------------------------------
(* Properties of the exporter *)

RunEntries(r) == {i \in 1..Len(getLog) : getLog[i].run = r}

\* C5: within a run no two download GETs are for the same derived path; no
\* GET is for a path that was on disk when its recording was processed; and
\* a file, once on disk, keeps its content (the files found before the run,
\* and every file in the state its one GET wrote it).
C5_AtMostOneGetPerPath ==
    /\ \A r \in {1, 2} : \A i, j \in RunEntries(r) :
            i # j => getLog[i].path # getLog[j].path
    /\ \A i \in 1..Len(getLog) : ~getLog[i].existed
    /\ \A f \in disk0 : f \in disk
    /\ \A i \in 1..Len(getLog) :
            ~getLog[i].failed
                => [path |-> getLog[i].path, content |-> getLog[i].content] \in disk

\* A user's two recordings of the same minute and parties have both been
\* processed, with one GET.
C5_Witness ==
    /\ epc = "download"
    /\ du <= Len(user_2_recording)
    /\ user_2_recording[du].recs = <<Rec1, Rec2>>
    /\ ri = 3
    /\ download_count = 1

ReportsOf(r) == SelectSeq(reports, LAMBDA x : x.run = r)

\* C6: a second run over the same mapping, after a completed first run,
\* issues no download GET, leaves the disk as the first run left it, never
\* fails, and reports 0 for each user of the mapping.
C6_RerunIdempotent ==
    run = 2
        => /\ RunEntries(2) = {}
           /\ disk = disk1
           /\ epc # "aborted"
           /\ \A i \in 1..Len(reports) : reports[i].run = 2 => reports[i].count = 0
           /\ epc = "done"
                => ReportsOf(2) =
                     [i \in 1..Len(user_2_recording) |->
                        [run |-> 2, user |-> user_2_recording[i].user, count |-> 0]]

C6_Witness ==
    /\ run = 2
    /\ epc = "done"
    /\ Len(user_2_recording) = 2
    /\ Len(getLog) >= 2

\* The dict that the fetches logged so far must have built.
RECURSIVE Fetched(_)
Fetched(log) ==
    IF log = <<>> THEN <<>>
    ELSE LET e == log[Len(log)]
             before == Fetched(SubSeq(log, 1, Len(log) - 1))
         IN  IF e.ok /\ Len(e.recs) > 0
             THEN Append(before, [user |-> e.user, recs |-> e.recs])
             ELSE before

FetchLoopOver == epc \in {"download", "done"} \/ (epc = "aborted" /\ getLog # <<>>)

\* C7: a failed metadata fetch stops nothing: every user of the list is
\* fetched, in order, whatever happened to the users before; the mapping is
\* exactly the successful fetches; and that mapping is what the download step
\* goes through.
C7_FetchErrorTolerated ==
    /\ epc \in {"fetch", "download", "done"} \/ (epc = "aborted" /\ getLog # <<>>)
        => /\ Len(fetchLog) = ui - 1
           /\ \A i \in 1..Len(fetchLog) : fetchLog[i].user = phone_user_list[i]
           /\ user_2_recording = Fetched(fetchLog)
    /\ FetchLoopOver => Len(fetchLog) = Len(phone_user_list)
    /\ epc = "aborted"
        => \/ getLog # <<>> /\ getLog[Len(getLog)].failed
           \/ USER_ID = "" /\ fetchLog = <<>> /\ phone_user_list = <<>>
    /\ epc = "done"
        => [i \in 1..Len(ReportsOf(1)) |-> ReportsOf(1)[i].user]
             = [i \in 1..Len(user_2_recording) |-> user_2_recording[i].user]

C7_Witness ==
    /\ epc = "done"
    /\ Len(fetchLog) = 2
    /\ ~fetchLog[1].ok
    /\ fetchLog[2].ok
    /\ Len(getLog) >= 1

\* C8: a download GET that raises ends the run: it is the last GET, nothing
\* is written for it, its user gets no report, and no step follows.
C8_DownloadErrorAborts ==
    \A i \in 1..Len(getLog) :
        getLog[i].failed
            => /\ i = Len(getLog)
               /\ epc = "aborted"
               /\ ~Exists(disk, getLog[i].path)
               /\ \A k \in 1..Len(reports) :
                    ~(reports[k].run = getLog[i].run /\ reports[k].user = getLog[i].user)
               /\ ~ENABLED NextExport

\* The run was aborted with a recording of the same user, and a later user,
\* still to come.
C8_Witness ==
    /\ epc = "aborted"
    /\ getLog # <<>>
    /\ du < Len(user_2_recording)
    /\ ri < Len(user_2_recording[du].recs)

Downloads(r, u) ==
    {i \in 1..Len(getLog) :
        getLog[i].run = r /\ getLog[i].user = u /\ ~getLog[i].failed}

\* C13: a recording whose path is not on disk gets one GET, and the body of
\* the response, whatever its status, is written to that path and counted:
\* every answered GET was for a path not on disk and left the response's
\* content there; every recording passed has its file; a file not there
\* before the run came from a GET; and the count of a user, running or
\* reported, is the number of that user's answered GETs in the run.
C13_DownloadWritesBody ==
    /\ \A i \in 1..Len(getLog) :
            ~getLog[i].failed
                => /\ ~getLog[i].existed
                   /\ [path |-> getLog[i].path,
                       content |-> Response(getLog[i].status_code, getLog[i].url).content]
                        \in disk
    /\ \A f \in disk \ disk0 :
            \E i \in 1..Len(getLog) : ~getLog[i].failed /\ getLog[i].path = f.path
    /\ (epc = "download" /\ du <= Len(user_2_recording))
            => /\ download_count = Cardinality(Downloads(run, ThisUser))
               /\ \A j \in 1..(ri - 1) :
                    Exists(disk, FilePaths[ThisUser, user_2_recording[du].recs[j]])
    /\ \A k \in 1..Len(reports) :
            reports[k].count = Cardinality(Downloads(reports[k].run, reports[k].user))

\* A response that is not a 200 was written and counted.
C13_Witness ==
    /\ epc = "download"
    /\ download_count = 2
    /\ \E i \in 1..Len(getLog) : ~getLog[i].failed /\ getLog[i].status_code = 404
    /\ \E f \in disk : f.content = "error page"

-----------------------------------------------------------------------------
(* Properties of the file name *)

Pad2(n) == IF n < 10 THEN "0" \o ToString(n) ELSE ToString(n)

\* The path the documentation of download_call_recordings describes.
DocumentedPath(a) ==
    "recordings/" \o ToString(a.moment.year) \o "/" \o ToString(a.moment.month)
    \o "/" \o a.user \o "/"
    \o ToString(a.moment.year) \o Pad2(a.moment.month) \o Pad2(a.moment.day)
    \o "-" \o Pad2(a.moment.hour) \o Pad2(a.moment.minute)
    \o "-" \o a.parties[1] \o "-" \o a.parties[2] \o ".mp3"

ExampleArgs ==
    [user |-> "ann@example.com",
     moment |-> [year |-> 2020, month |-> 8, day |-> 21, hour |-> 22,
                 minute |-> 17, second |-> 5],
     parties |-> <<"16505551212", "104">>]

\* C11: the path is recordings/<year>/<month unpadded>/<user>/ followed by
\* <yyyy><mm><dd>-<hh><mm>-<caller>-<callee>.mp3 with two-digit month, day,
\* hour and minute: a function of the user, the moment (to the minute) and
\* the two numbers, and for the documented example the documented path.
C11_PathOfRecording ==
    derived # <<>>
        => /\ derived.path = DocumentedPath(nameArgs)
           /\ derived.path = derived.directory \o "/" \o derived.filename
           /\ nameArgs = ExampleArgs
                => derived.path =
                     "recordings/2020/8/ann@example.com/20200821-2217-16505551212-104.mp3"

C11_Witness ==
    /\ derived # <<>>
    /\ nameArgs = ExampleArgs

-----------------------------------------------------------------------------
(* Properties of phone_update_user_profile and of the two retry loops *)

Keys(d) == {item[1] : item \in d}
BothGiven == Truthy(site_id) /\ Truthy(extension_number)
LastPatch == patchLog[Len(patchLog)]

\* C15: with site_id and extension_number both given, no PATCH carries both
\* fields; the first PATCH carries site_id; a second one, carrying
\* extension_number, exists exactly when the first was answered 204; and the
\* method returns the success message exactly when the last PATCH it sent
\* was answered 204.
C15_SiteThenExtension ==
    /\ (BothGiven /\ patchLog # <<>>)
        => /\ \A i \in 1..Len(patchLog) : Keys(patchLog[i].data) # {"site_id", "extension_number"}
           /\ patchLog[1].data = {<<"site_id", site_id>>}
           /\ Len(patchLog) <= 2
           /\ Len(patchLog) = 2 <=> patchLog[1].status = 204
           /\ Len(patchLog) = 2
                => patchLog[2].data = {<<"extension_number", extension_number>>}
    /\ upc = "returned"
        => (uresult = Processed <=> LastPatch.status = 204)
    /\ uresult = Processed => upc = "returned"

\* The site PATCH was answered 200: no second PATCH, and no success message.
C15_Witness ==
    /\ BothGiven
    /\ upc = "returned"
    /\ Len(patchLog) = 1
    /\ patchLog[1].status = 200
    /\ patchLog[1].requests >= 2
    /\ uresult = None

BothEnded == getLoop.state \notin {"idle", "running"} /\ patchLoop.state \notin {"idle", "running"}
FinalStatus == statuses[Len(statuses)]

\* C16: on the same answers the two loops make the same requests and end the
\* same way, except that a final 204 is a success for _phone_patch and a
\* status failure for _phone_get: whenever they have made equally many
\* requests they are in the same state, up to that exception.
C16_SameRetryProtocol ==
    /\ getLoop.requests = patchLoop.requests
        => \/ getLoop = patchLoop
           \/ /\ FinalStatus = 204
              /\ getLoop = [patchLoop EXCEPT !.state = "status"]
              /\ patchLoop.state = "success"
              /\ patchLoop.code = 204
    /\ BothEnded => getLoop.requests = patchLoop.requests

C16_Witness ==
    /\ BothEnded
    /\ FinalStatus = 204
    /\ getLoop.requests = 4
    /\ patchLoop.state = "success"

-----------------------------------------------------------------------------
(* Properties of the wrappers *)

InvalidArgs ==
    \/ wrapper = "_phone_get" /\ raw = FALSE /\ key_in_response_to_return = None
    \/ wrapper \in Wrappers /\ (page_size < 1 \/ page_size > MaxPageSize(wrapper))

ValidationErrors ==
    {Err("ValueError"), Err("ValueError:page_size"), Err("RuntimeWarning:range")}

\* C17: _phone_get called with raw=False and no key_in_response_to_return,
\* and a wrapper called with a page_size outside its range, issue no HTTP
\* request: the call is either still to run its checks or has raised a
\* validation error, and it always can raise.
C17_ValidationBeforeIO ==
    InvalidArgs
        => /\ nGets = 0
           /\ sent = <<>>
           /\ \/ pc \in {"wrapper", "call"} /\ error = NoError /\ ENABLED NextWrap
              \/ pc = "raised" /\ error \in ValidationErrors

C17_Witness ==
    /\ wrapper = "phone_list_users"
    /\ page_size = 101
    /\ pc = "raised"
    /\ error = Err("ValueError:page_size")
    /\ nGets = 0

====
